---- MODULE Spec2Model ----
(***************************************************************************)
(* The chat gateway of llm_backend/main.py: the in-memory session store,   *)
(* the upstream probe and proxy, the placeholder responder, the POST /chat,*)
(* GET /sessions/{id} and GET /health handlers and the websocket hub; and  *)
(* the qualifying endpoint of f1_backend/main.py.                          *)
(*                                                                         *)
(* Texts are TLA+ strings.  Each handler runs as a coroutine: a step of    *)
(* the model is the code between two suspension points (the awaits that    *)
(* really wait: the probe, the read of the audio upload, the proxied       *)
(* POST).  The placeholder coroutines (transcribe_audio, text_to_speech,   *)
(* generate_llm_response) hold no awaits of their own, so awaiting them    *)
(* does not suspend the handler.                                           *)
(*                                                                         *)
(* Spec      the service handling its HTTP requests one after the other    *)
(* SpecConc  chat handlers in flight together, interleaved at the awaits   *)
(* SpecStore the session store under any sequence of appends               *)
(* SpecLive  one chat handler whose awaited calls all end (weak fairness)  *)
(* SpecHealth GET /health between chat requests, the backend client        *)
(*           coming and going                                              *)
(* SpecHub   the websockets of /ws/{user_id} and the ConnectionManager     *)
(* SpecF1    GET /api/f1/qualifying of f1_backend/main.py                  *)
(* SpecResponder generate_llm_response on messages of a few words          *)
(* SpecForward chat requests against a backend client whose POST changes   *)
(* SpecFrame chat requests, health requests and one websocket interleaved  *)
(* SpecPair  two chat handlers on one session, text and voice              *)
(***************************************************************************)
EXTENDS Integers, Sequences, FiniteSets, TLC

\* ------------------------------------------------------------------ bounds

\* Handler frames that can be in flight at once (SpecConc); Spec runs one
\* handler at a time, in slot 1.
NumSlots == 2
\* Chat requests that arrive in one behaviour.
MaxRequests == 2
\* Appends in one behaviour of SpecStore.
MaxAppends == 12

\* Websockets that connect, and texts they send, in a run of the hub.
NumChannels == 3

MaxTexts == 1

\* Health requests in one behaviour.
MaxChecks == 3

\* Drivers in a qualifying session.
MaxDrivers == 3

\* Words in a message given to the responder on its own.
MaxWords == 2

\* ------------------------------------------------------- program constants

\* context["messages"][-10:]
HistoryLimit == 10

\* BACKEND_TIMEOUT = 30.0: the timeout of the client of the proxied POST.
BACKEND_TIMEOUT == 30

\* httpx.AsyncClient(timeout=5.0): the timeout of the client of the probe.
ProbeTimeout == 5

\* Python's None, and a key that a JSON object does not hold.
None == "<None>"
Absent == "<absent>"

Slots == 1..NumSlots

\* ------------------------------------------------------------------ inputs

Messages == {"Tell me about F1", "ok"}
SessionIds == {"s1", "s2"}
UserIds == {"u1"}
Types == {"text", "voice", "video"}

\* The audio form part: absent, or an upload with its declared content type
\* (None when the part declares none).
NoAudio == [present |-> FALSE, content_type |-> None]
Uploads == {[present |-> TRUE, content_type |-> ct] :
              ct \in {None, "", "audio/webm", "image/png"}}
Audios == {NoAudio} \cup Uploads

\* The audio parts a request of each type is sent with: the handler reads the
\* part of a voice request only.
AudiosOf(type) ==
    IF type = "voice" THEN Audios
    ELSE {NoAudio, [present |-> TRUE, content_type |-> "audio/webm"]}

Requests == {q \in [message : Messages, type : Types, sessionId : SessionIds,
                    userId : UserIds, audio : Audios] :
               q.audio \in AudiosOf(q.type)}

NoRequest == [message |-> "", type |-> "", sessionId |-> "", userId |-> "",
              audio |-> NoAudio]

\* What the upstream's GET /health does: a status, or the client raises.
ProbeOutcomes == {[kind |-> "status", status |-> 200],
                  [kind |-> "status", status |-> 204],
                  [kind |-> "status", status |-> 500],
                  [kind |-> "status", status |-> 503],
                  [kind |-> "timeout", status |-> 0],
                  [kind |-> "connect", status |-> 0],
                  [kind |-> "other", status |-> 0]}

\* A response body as response.json() sees it: a JSON object (a key it does
\* not hold is Absent), a JSON value that is no object, or no JSON at all.
Payload(k, m, t, a) == [kind |-> k, message |-> m, type |-> t, audioUrl |-> a]
NoPayload == Payload("none", Absent, Absent, Absent)
Payloads == {Payload("object", "upstream reply", "text", None),
             Payload("object", "upstream voice reply", "voice", "/api/voice/mock_response.mp3"),
             Payload("object", "upstream reply", "text", "/api/voice/mock_response.mp3"),
             Payload("object", Absent, Absent, Absent),
             Payload("array", Absent, Absent, Absent),
             Payload("invalid", Absent, Absent, Absent)}

\* What the upstream's POST /chat does.
Outcome(k, s, p) == [kind |-> k, status |-> s, payload |-> p]
ForwardOutcomes == {Outcome("status", 200, p) : p \in Payloads}
                   \cup {Outcome("status", s, NoPayload) : s \in {503}}
                   \cup {Outcome(k, 0, NoPayload) : k \in {"timeout", "connect", "other"}}

\* ------------------------------------------------------------------- state

VARIABLES
    sessions,   \* the module-level dict: session id -> session record
    now,        \* the clock datetime.now() reads
    pc,         \* per slot: where the chat handler is
    req,        \* per slot: the form fields of the request
    avail,      \* per slot: backend_available ("unknown" before the probe ends)
    result,     \* per slot: what proxy_to_backend_client returned
    resp,       \* per slot: the HTTP answer of the handler
    probes,     \* per slot: calls of check_backend_availability
    forwards,   \* per slot: calls of proxy_to_backend_client
    gens,       \* per slot: calls of generate_llm_response
    appended,   \* per slot: the entries the handler appended, in order
    arrivals,   \* chat requests so far
    ticket,     \* per slot: the arrival number of the request (0 when idle)
    trace,      \* per slot: what the handler has done so far, in order
    lookup,     \* the answer of GET /sessions/{id}, when the last step was one
    log,        \* SpecStore: per session id, every entry appended to it, in order
    active_connections, \* ConnectionManager: user id -> the websocket registered
    wpc,        \* per websocket: where its handler is
    wuser,      \* per websocket: the user_id of its path
    outbox,     \* per websocket: the texts sent on it, in order
    dropped,    \* the texts send_message did not send
    received,   \* texts received over all websockets so far
    latest,     \* per user id: the websocket manager.connect registered last
    upstream,   \* what the GET /health of the backend client ends with
    upstream_post, \* SpecForward: what the POST /chat of the backend client ends with
    health,     \* the answer of GET /health, when the last step was one
    quali,      \* f1_backend: the session data fastf1 loaded for the request
    qualifying, \* f1_backend: the answer of GET /api/f1/qualifying
    utterance,  \* SpecResponder: the message given to generate_llm_response
    answered,   \* SpecResponder: what generate_llm_response returned
    given       \* SpecResponder: the session context and user id it was given

\* The state of the other endpoints, which the chat handler never touches.
hubVars == <<active_connections, wpc, wuser, outbox, dropped, received, latest>>

healthVars == <<upstream, upstream_post, health>>

f1Vars == <<quali, qualifying>>

responderVars == <<utterance, answered, given>>

otherVars == <<hubVars, healthVars, f1Vars, responderVars>>

vars == <<sessions, now, pc, req, avail, result, resp, probes, forwards, gens,
          appended, arrivals, ticket, trace, lookup, log, otherVars>>

slotVars == <<pc, req, avail, result, resp, probes, forwards, gens, appended,
              arrivals, ticket, trace>>

\* ----------------------------------------------------------- session store

NewSession(t) == [messages |-> <<>>, created_at |-> t, last_activity |-> t]

\* get_session_context making a new session on every call.
get_session_context_fresh(s, session_id, t) ==
    [x \in DOMAIN s \cup {session_id} |->
        IF x = session_id THEN NewSession(t) ELSE s[x]]

get_session_context(s, session_id, t) ==
    IF session_id \in DOMAIN s THEN s ELSE s @@ (session_id :> NewSession(t))

Message(c, ty, u) == [content |-> c, type |-> ty, is_user |-> u]

Entry(message, t) ==
    [content |-> message.content, type |-> message.type,
     timestamp |-> t, is_user |-> message.is_user]

\* seq[-n:]
LastN(seq, n) ==
    IF Len(seq) <= n THEN seq ELSE SubSeq(seq, Len(seq) - n + 1, Len(seq))

\* The slice taken from the wrong end: [:10] for [-10:].
add_message_to_session_first(s, session_id, message, t) ==
    LET ctx == get_session_context(s, session_id, t)
        msgs == Append(ctx[session_id].messages, Entry(message, t))
    IN [ctx EXCEPT ![session_id].messages =
                       SubSeq(msgs, 1, IF Len(msgs) <= HistoryLimit
                                       THEN Len(msgs) ELSE HistoryLimit),
                   ![session_id].last_activity = t]

\* add_message_to_session stamping last_activity on every stored session.
add_message_to_session_touch_all(s, session_id, message, t) ==
    LET ctx == get_session_context(s, session_id, t)
        msgs == Append(ctx[session_id].messages, Entry(message, t))
    IN [x \in DOMAIN ctx |->
           IF x = session_id
           THEN [ctx[x] EXCEPT !.messages = LastN(msgs, HistoryLimit),
                               !.last_activity = t]
           ELSE [ctx[x] EXCEPT !.last_activity = t]]

add_message_to_session(s, session_id, message, t) ==
    LET ctx == get_session_context(s, session_id, t)
        msgs == Append(ctx[session_id].messages, Entry(message, t))
    IN [ctx EXCEPT ![session_id].messages = LastN(msgs, HistoryLimit),
                   ![session_id].last_activity = t]

\* --------------------------------------------------------- upstream client

\* The probe taking every success status for available.
check_backend_availability_2xx(outcome) ==
    IF outcome.kind = "status" THEN outcome.status \in 200..299 ELSE FALSE

\* response.status_code == 200, and False on any exception of the GET.
check_backend_availability(outcome) ==
    IF outcome.kind = "status" THEN outcome.status = 200 ELSE FALSE

\* What the body of the try block of proxy_to_backend_client ends with: the
\* decoded payload, or the exception it raises.
Returned(p) == [raised |-> FALSE, exc |-> "", status |-> 200, value |-> p]
Raised(e, s) == [raised |-> TRUE, exc |-> e, status |-> s, value |-> NoPayload]

proxy_try_body(outcome) ==
    CASE outcome.kind = "timeout" -> Raised("TimeoutException", 0)
      [] outcome.kind = "connect" -> Raised("ConnectError", 0)
      [] outcome.kind = "other" -> Raised("Exception", 0)
      [] outcome.kind = "status" /\ outcome.status = 200 ->
            IF outcome.payload.kind = "invalid"
            THEN Raised("Exception", 0)          \* response.json() raises
            ELSE Returned(outcome.payload)
      [] OTHER -> Raised("HTTPException", outcome.status)

\* The except clauses, in their order: HTTPException is neither of the two
\* httpx exceptions, so the last clause catches the one the try body raised.
proxy_except(e) ==
    CASE e.exc = "TimeoutException" -> Raised("HTTPException", 504)
      [] e.exc = "ConnectError" -> Raised("HTTPException", 503)
      [] OTHER -> Raised("HTTPException", 500)

proxy_to_backend_client(outcome) ==
    LET r == proxy_try_body(outcome)
    IN IF r.raised THEN proxy_except(r) ELSE r

\* ------------------------------------------------------ response generator

UpperCase == "ABCDEFGHIJKLMNOPQRSTUVWXYZ"
LowerCase == "abcdefghijklmnopqrstuvwxyz"

CharAt(s, i) == SubSeq(s, i, i)

\* The lower-case letter of each upper-case letter.
LowerOf ==
    [c \in {CharAt(UpperCase, i) : i \in 1..Len(UpperCase)} |->
        CharAt(LowerCase, CHOOSE i \in 1..Len(UpperCase) : CharAt(UpperCase, i) = c)]

LowerChar(c) == IF c \in DOMAIN LowerOf THEN LowerOf[c] ELSE c

\* str.lower() on ASCII text
RECURSIVE Lower(_)
Lower(s) ==
    IF Len(s) <= 1 THEN LowerChar(s)
    ELSE LET h == Len(s) \div 2
         IN Lower(SubSeq(s, 1, h)) \o Lower(SubSeq(s, h + 1, Len(s)))

\* t in s
Contains(s, t) ==
    \E i \in 1..(Len(s) - Len(t) + 1) : SubSeq(s, i, i + Len(t) - 1) = t

\* s.startswith(p)
StartsWith(s, p) == Len(s) >= Len(p) /\ SubSeq(s, 1, Len(p)) = p

F1Reply == "I can help you with F1 predictions and analysis! Based on current data, I'd recommend checking the latest qualifying results and driver performance metrics."
BetReply == "For sports betting insights, I can analyze match statistics, team performance, and historical data to help you make informed decisions."
HelloReply == "Hello! I'm your AI assistant for sports betting and F1 analysis. How can I help you today?"
EchoReply(message) ==
    "I understand you said: '" \o message \o "'. I'm here to help with sports betting analysis, F1 predictions, and match insights. What specific information are you looking for?"

\* The responder with its first two tests in the other order.
generate_llm_response_bet_first(message, session_context, user_id) ==
    LET m == Lower(message)
    IN IF Contains(m, "bet") \/ Contains(m, "betting") THEN BetReply
       ELSE IF Contains(m, "f1") \/ Contains(m, "formula") THEN F1Reply
       ELSE IF Contains(m, "hello") \/ Contains(m, "hi") THEN HelloReply
       ELSE EchoReply(message)

\* The responder reminding of the conversation when the session has a
\* history.
generate_llm_response_history(message, session_context, user_id) ==
    LET m == Lower(message)
    IN IF session_context.messages # <<>> THEN "As I said: " \o EchoReply(message)
       ELSE IF Contains(m, "f1") \/ Contains(m, "formula") THEN F1Reply
       ELSE IF Contains(m, "bet") \/ Contains(m, "betting") THEN BetReply
       ELSE IF Contains(m, "hello") \/ Contains(m, "hi") THEN HelloReply
       ELSE EchoReply(message)

generate_llm_response(message, session_context, user_id) ==
    LET m == Lower(message)
    IN IF Contains(m, "f1") \/ Contains(m, "formula") THEN F1Reply
       ELSE IF Contains(m, "bet") \/ Contains(m, "betting") THEN BetReply
       ELSE IF Contains(m, "hello") \/ Contains(m, "hi") THEN HelloReply
       ELSE EchoReply(message)

TranscribedText == "I received your voice message, but speech-to-text is not implemented yet. Please use text messages for now."

transcribe_audio(audio_file) == TranscribedText

\* A synthesis that saves a file and returns its URL.
text_to_speech_saved(text) == "/api/voice/reply.mp3"

text_to_speech(text) == None

\* ------------------------------------------------------------ chat gateway

\* bool(x) of an Optional[str]
Truthy(x) == x # None /\ x # ""

\* The validation without its check that a voice request has an audio part.
validate_no_audio_check(request) ==
    IF request.type \notin {"text", "voice"}
    THEN "Type must be 'text' or 'voice'"
    ELSE IF request.type = "voice" /\ request.audio.present
            /\ Truthy(request.audio.content_type)
            /\ ~StartsWith(request.audio.content_type, "audio/")
    THEN "File must be an audio file"
    ELSE None

\* The validation of chat_endpoint: the detail of the 400 it raises, or None.
validate(request) ==
    IF request.type \notin {"text", "voice"}
    THEN "Type must be 'text' or 'voice'"
    ELSE IF request.type = "voice" /\ ~request.audio.present
    THEN "Audio file required for voice messages"
    ELSE IF request.type = "voice" /\ Truthy(request.audio.content_type)
            /\ ~StartsWith(request.audio.content_type, "audio/")
    THEN "File must be an audio file"
    ELSE None

\* dict.get(key, default)
DictGet(value, default) == IF value = Absent THEN default ELSE value

Response(st, b) == [status |-> st, body |-> b]
NoResponse == Response(0, NoPayload)
ErrorResponse(st, detail) == Response(st, Payload("error", detail, Absent, Absent))

\* What a stretch of the handler leaves: the session dict, the entries it
\* appended, the calls of generate_llm_response it made, whether it raised,
\* the answer when it returned, and what it did, in the order of its
\* statements.
Done(s, es, g, b) ==
    [sessions |-> s, entries |-> es, gens |-> g, raised |-> FALSE,
     resp |-> Response(200, b), events |-> <<>>]
Threw(s, es) ==
    [sessions |-> s, entries |-> es, gens |-> 0, raised |-> TRUE,
     resp |-> NoResponse, events |-> <<>>]

\* Lines 240-252: record both messages, then return the upstream's payload.
\* result.get raises AttributeError when the payload is no JSON object; the
\* user message is in the session by then.
record_proxied(s, request, payload, t) ==
    LET user == Message(request.message, request.type, TRUE)
        s1 == add_message_to_session(s, request.sessionId, user, t)
    IN IF payload.kind # "object"
       THEN [Threw(s1, <<Entry(user, t)>>) EXCEPT !.events = <<"append">>]
       ELSE LET reply == Message(DictGet(payload.message, ""),
                                 DictGet(payload.type, "text"), FALSE)
                s2 == add_message_to_session(s1, request.sessionId, reply, t)
            IN [Done(s2, <<Entry(user, t), Entry(reply, t)>>, 0, payload)
                   EXCEPT !.events = <<"append", "append">>]

\* Lines 261-319: the placeholder implementation.
placeholder(s, request, t) ==
    LET sid == request.sessionId
        s0 == get_session_context(s, sid, t)
        text == IF request.type = "voice"
                THEN transcribe_audio(request.audio) ELSE request.message
        user == Message(text, request.type, TRUE)
        s1 == add_message_to_session(s0, sid, user, t)
        response_text == generate_llm_response(text, s1[sid], request.userId)
        audio_url == IF request.type = "voice"
                     THEN text_to_speech(response_text) ELSE None
        reply == Message(response_text, request.type, FALSE)
        s2 == add_message_to_session(s1, sid, reply, t)
    IN [Done(s2, <<Entry(user, t), Entry(reply, t)>>, 1,
             Payload("object", response_text, request.type, audio_url))
        EXCEPT !.events = IF request.type = "voice"
                          THEN <<"transcribe", "append", "generate", "synthesize", "append">>
                          ELSE <<"append", "generate", "append">>]

\* The proxied branch taken whatever the probe said.
use_proxy_always(backend_available) == TRUE

\* Line 227: if backend_available
use_proxy(backend_available) == backend_available

\* The handler without its two inner except clauses.
on_proxy_exception_raise(e) == "raise"

\* Lines 254-259: what the handler does with an exception of the proxied
\* branch: "fallback" (log it and go on to the placeholder) or "raise".
on_proxy_exception(e) == "fallback"

\* The handler from the return of proxy_to_backend_client to its end.
after_proxy(s, request, proxied, t) ==
    LET rec == IF proxied.raised THEN Threw(s, <<>>)
               ELSE record_proxied(s, request, proxied.value, t)
        exc == IF proxied.raised THEN proxied
               ELSE Raised("AttributeError", 0)
        ev == (IF proxied.raised THEN <<"forward_failed">> ELSE <<"forward_returned">>)
              \o rec.events
    IN IF ~rec.raised THEN [rec EXCEPT !.events = ev]
       ELSE IF on_proxy_exception(exc) = "fallback"
       THEN LET fb == placeholder(rec.sessions, request, t)
            IN [fb EXCEPT !.entries = rec.entries \o fb.entries,
                          !.events = ev \o fb.events]
       ELSE [rec EXCEPT !.raised = FALSE,
                        !.events = ev,
                        !.resp = IF exc.exc = "HTTPException"
                                 THEN ErrorResponse(exc.status, "Backend error")
                                 ELSE ErrorResponse(500, "Internal server error")]

\* ----------------------------------------------------------------- actions

NoLookup == [id |-> "", status |-> 0]

Finish(r, out) ==
    /\ sessions' = out.sessions
    /\ now' = now + 1
    /\ pc' = [pc EXCEPT ![r] = "done"]
    /\ resp' = [resp EXCEPT ![r] = out.resp]
    /\ gens' = [gens EXCEPT ![r] = @ + out.gens]
    /\ appended' = [appended EXCEPT ![r] = @ \o out.entries]
    /\ trace' = [trace EXCEPT ![r] = @ \o out.events \o <<"respond">>]

\* The handler issuing the probe before it validates the request.
Arrive_probe_first(r, request) ==
    /\ pc[r] = "idle"
    /\ arrivals < MaxRequests
    /\ req' = [req EXCEPT ![r] = request]
    /\ probes' = [probes EXCEPT ![r] = @ + 1]
    /\ IF validate(request) # None
       THEN /\ pc' = [pc EXCEPT ![r] = "done"]
            /\ resp' = [resp EXCEPT ![r] = ErrorResponse(400, validate(request))]
            /\ trace' = [trace EXCEPT ![r] = <<"probe", "validate", "respond">>]
       ELSE /\ pc' = [pc EXCEPT ![r] = "probing"]
            /\ trace' = [trace EXCEPT ![r] = <<"probe", "validate">>]
            /\ UNCHANGED resp
    /\ arrivals' = arrivals + 1
    /\ ticket' = [ticket EXCEPT ![r] = arrivals + 1]
    /\ lookup' = NoLookup
    /\ UNCHANGED <<sessions, now, avail, result, forwards, gens, appended, log, otherVars>>

\* POST /chat arrives: validation, then the probe is issued.
Arrive(r, request) ==
    /\ pc[r] = "idle"
    /\ arrivals < MaxRequests
    /\ req' = [req EXCEPT ![r] = request]
    /\ IF validate(request) # None
       THEN /\ pc' = [pc EXCEPT ![r] = "done"]
            /\ resp' = [resp EXCEPT ![r] = ErrorResponse(400, validate(request))]
            /\ trace' = [trace EXCEPT ![r] = <<"validate", "respond">>]
            /\ UNCHANGED probes
       ELSE /\ pc' = [pc EXCEPT ![r] = "probing"]
            /\ probes' = [probes EXCEPT ![r] = @ + 1]
            /\ trace' = [trace EXCEPT ![r] = <<"validate", "probe">>]
            /\ UNCHANGED resp
    /\ arrivals' = arrivals + 1
    /\ ticket' = [ticket EXCEPT ![r] = arrivals + 1]
    /\ lookup' = NoLookup
    /\ UNCHANGED <<sessions, now, avail, result, forwards, gens, appended, log, otherVars>>

\* The handler probing again, up to three times, when the probe says the
\* backend client is not available.
ProbeDone_retry(r) ==
    /\ pc[r] = "probing"
    /\ \E outcome \in ProbeOutcomes :
         LET backend_available == check_backend_availability(outcome)
         IN /\ avail' = [avail EXCEPT ![r] = IF backend_available THEN "yes" ELSE "no"]
            /\ IF use_proxy(backend_available)
               THEN /\ forwards' = [forwards EXCEPT ![r] = @ + 1]
                    /\ pc' = [pc EXCEPT ![r] =
                                IF req[r].audio.present /\ req[r].type = "voice"
                                THEN "reading" ELSE "posting"]
                    /\ trace' = [trace EXCEPT ![r] = Append(@, "forward")]
                    /\ UNCHANGED <<sessions, now, resp, gens, appended, probes>>
               ELSE IF probes[r] < 3
                    THEN /\ probes' = [probes EXCEPT ![r] = @ + 1]
                         /\ trace' = [trace EXCEPT ![r] = Append(@, "probe")]
                         /\ UNCHANGED <<sessions, now, pc, resp, gens, appended, forwards>>
                    ELSE /\ Finish(r, placeholder(sessions, req[r], now))
                         /\ UNCHANGED <<forwards, probes>>
    /\ lookup' = NoLookup
    /\ UNCHANGED <<req, result, arrivals, ticket, log, otherVars>>

\* The handler recording the user message before it awaits the proxied POST.
ProbeDone_user_first(r) ==
    /\ pc[r] = "probing"
    /\ \E outcome \in ProbeOutcomes :
         LET backend_available == check_backend_availability(outcome)
             user == Message(req[r].message, req[r].type, TRUE)
         IN /\ avail' = [avail EXCEPT ![r] = IF backend_available THEN "yes" ELSE "no"]
            /\ IF use_proxy(backend_available)
               THEN /\ forwards' = [forwards EXCEPT ![r] = @ + 1]
                    /\ pc' = [pc EXCEPT ![r] =
                                IF req[r].audio.present /\ req[r].type = "voice"
                                THEN "reading" ELSE "posting"]
                    /\ trace' = [trace EXCEPT ![r] = @ \o <<"append", "forward">>]
                    /\ sessions' = add_message_to_session(sessions, req[r].sessionId,
                                                          user, now)
                    /\ appended' = [appended EXCEPT ![r] = Append(@, Entry(user, now))]
                    /\ UNCHANGED <<now, resp, gens>>
               ELSE /\ Finish(r, placeholder(sessions, req[r], now))
                    /\ UNCHANGED forwards
    /\ lookup' = NoLookup
    /\ UNCHANGED <<req, result, probes, arrivals, ticket, log, otherVars>>

\* The probe ends: the proxied call starts, or the placeholder answers.
ProbeDone(r) ==
    /\ pc[r] = "probing"
    /\ \E outcome \in ProbeOutcomes :
         LET backend_available == check_backend_availability(outcome)
         IN /\ avail' = [avail EXCEPT ![r] = IF backend_available THEN "yes" ELSE "no"]
            /\ IF use_proxy(backend_available)
               THEN /\ forwards' = [forwards EXCEPT ![r] = @ + 1]
                    /\ pc' = [pc EXCEPT ![r] =
                                IF req[r].audio.present /\ req[r].type = "voice"
                                THEN "reading" ELSE "posting"]
                    /\ trace' = [trace EXCEPT ![r] = Append(@, "forward")]
                    /\ UNCHANGED <<sessions, now, resp, gens, appended>>
               ELSE /\ Finish(r, placeholder(sessions, req[r], now))
                    /\ UNCHANGED forwards
    /\ lookup' = NoLookup
    /\ UNCHANGED <<req, result, probes, arrivals, ticket, log, otherVars>>

\* await audio_file.read() ends: the POST is issued, or the read raised.
ReadDone(r) ==
    /\ pc[r] = "reading"
    /\ \/ /\ pc' = [pc EXCEPT ![r] = "posting"]
          /\ UNCHANGED <<sessions, now, result, resp, gens, appended, trace>>
       \/ LET proxied == proxy_to_backend_client(Outcome("other", 0, NoPayload))
          IN /\ result' = [result EXCEPT ![r] = proxied]
             /\ Finish(r, after_proxy(sessions, req[r], proxied, now))
    /\ lookup' = NoLookup
    /\ UNCHANGED <<req, avail, probes, forwards, arrivals, ticket, log, otherVars>>

\* The proxied POST ends.
PostDone(r) ==
    /\ pc[r] = "posting"
    /\ \E outcome \in ForwardOutcomes :
         LET proxied == proxy_to_backend_client(outcome)
         IN /\ result' = [result EXCEPT ![r] = proxied]
            /\ Finish(r, after_proxy(sessions, req[r], proxied, now))
    /\ lookup' = NoLookup
    /\ UNCHANGED <<req, avail, probes, forwards, arrivals, ticket, log, otherVars>>

\* The answer is sent and the handler's frame is gone.
Release(r) ==
    /\ pc[r] = "done"
    /\ pc' = [pc EXCEPT ![r] = "idle"]
    /\ req' = [req EXCEPT ![r] = NoRequest]
    /\ avail' = [avail EXCEPT ![r] = "unknown"]
    /\ result' = [result EXCEPT ![r] = Returned(NoPayload)]
    /\ resp' = [resp EXCEPT ![r] = NoResponse]
    /\ probes' = [probes EXCEPT ![r] = 0]
    /\ forwards' = [forwards EXCEPT ![r] = 0]
    /\ gens' = [gens EXCEPT ![r] = 0]
    /\ appended' = [appended EXCEPT ![r] = <<>>]
    /\ ticket' = [ticket EXCEPT ![r] = 0]
    /\ trace' = [trace EXCEPT ![r] = <<>>]
    /\ lookup' = NoLookup
    /\ UNCHANGED <<sessions, now, arrivals, log, otherVars>>

\* The lookup made through get_session_context, which creates the session.
get_session_info_creating(session_id) ==
    /\ sessions' = get_session_context(sessions, session_id, now)
    /\ lookup' = [id |-> session_id, status |-> 200]
    /\ UNCHANGED <<now, log, otherVars>>
    /\ UNCHANGED slotVars

\* GET /sessions/{session_id}
get_session_info(session_id) ==
    /\ lookup' = IF session_id \notin DOMAIN sessions
                 THEN [id |-> session_id, status |-> 404]
                 ELSE [id |-> session_id, status |-> 200]
    /\ UNCHANGED <<sessions, now, log, otherVars>>
    /\ UNCHANGED slotVars

\* One call of add_message_to_session, as every caller makes it.
StoreMessages == {Message("ok", "text", TRUE)}

StoreAppend(session_id, message) ==
    /\ now < MaxAppends
    /\ sessions' = add_message_to_session(sessions, session_id, message, now)
    /\ log' = [log EXCEPT ![session_id] = Append(@, Entry(message, now))]
    /\ now' = now + 1
    /\ UNCHANGED <<lookup, otherVars>>
    /\ UNCHANGED slotVars

ChatInit ==
    /\ sessions = <<>>
    /\ now = 0
    /\ pc = [r \in Slots |-> "idle"]
    /\ req = [r \in Slots |-> NoRequest]
    /\ avail = [r \in Slots |-> "unknown"]
    /\ result = [r \in Slots |-> Returned(NoPayload)]
    /\ resp = [r \in Slots |-> NoResponse]
    /\ probes = [r \in Slots |-> 0]
    /\ forwards = [r \in Slots |-> 0]
    /\ gens = [r \in Slots |-> 0]
    /\ appended = [r \in Slots |-> <<>>]
    /\ arrivals = 0
    /\ ticket = [r \in Slots |-> 0]
    /\ trace = [r \in Slots |-> <<>>]
    /\ lookup = NoLookup
    /\ log = [session_id \in SessionIds |-> <<>>]

\* ---------------------------------------------------------------------------
\* The realtime hub: ConnectionManager and the /ws/{user_id} endpoint
\* ---------------------------------------------------------------------------

HubUsers == {"u1", "u2"}

Texts == {"ping"}

Channels == 1..NumChannels

\* self.active_connections[user_id] = websocket on the setdefault reading:
\* an earlier registration of the user id is kept.
register_first_wins(connections, user_id, websocket) ==
    IF user_id \in DOMAIN connections
    THEN connections
    ELSE [u \in DOMAIN connections \cup {user_id} |->
            IF u = user_id THEN websocket ELSE connections[u]]

\* self.active_connections[user_id] = websocket
register(connections, user_id, websocket) ==
    [u \in DOMAIN connections \cup {user_id} |->
        IF u = user_id THEN websocket ELSE connections[u]]

\* ConnectionManager.disconnect: the entry of the user id is deleted, whichever
\* websocket it holds.
disconnect(connections, user_id) ==
    [u \in DOMAIN connections \ {user_id} |-> connections[u]]

\* ConnectionManager.send_message sending to every registered websocket when
\* the user id has none.
send_message_broadcast(connections, user_id) ==
    IF user_id \in DOMAIN connections
    THEN {connections[user_id]}
    ELSE {connections[u] : u \in DOMAIN connections}

\* ConnectionManager.send_message: the websockets send_text is called on.
send_message(connections, user_id) ==
    IF user_id \in DOMAIN connections THEN {connections[user_id]} ELSE {}

\* One text on the wire: n numbers the texts in the order the service received
\* them and from names the websocket it was received on.
Sent(data, from, n) == [data |-> data, from |-> from, n |-> n]

\* websocket_endpoint is called for a new websocket and waits in
\* manager.connect for websocket.accept(); websockets are numbered in the
\* order they arrive.
connect_begin(c, user_id) ==
    /\ wpc[c] = "unused"
    /\ \A d \in Channels : d < c => wpc[d] # "unused"
    /\ wpc' = [wpc EXCEPT ![c] = "accepting"]
    /\ wuser' = [wuser EXCEPT ![c] = user_id]
    /\ UNCHANGED <<active_connections, outbox, dropped, received, latest>>
    /\ UNCHANGED <<sessions, now, lookup, log, slotVars, healthVars, f1Vars, responderVars>>

\* accept() returns: manager.connect registers the websocket and the handler
\* waits in receive_text.
connect_end(c) ==
    /\ wpc[c] = "accepting"
    /\ wpc' = [wpc EXCEPT ![c] = "open"]
    /\ active_connections' = register(active_connections, wuser[c], c)
    /\ latest' = register(latest, wuser[c], c)
    /\ UNCHANGED <<wuser, outbox, dropped, received>>
    /\ UNCHANGED <<sessions, now, lookup, log, slotVars, healthVars, f1Vars, responderVars>>

\* receive_text returns data: the handler builds the echo and calls
\* manager.send_message with its own user id. send_text on a websocket whose
\* handler has ended raises in the sending handler: WebSocketDisconnect, which
\* the handler takes for its own disconnect, or another exception, which ends
\* the handler; which of the two depends on the server underneath.
receive_text(c, data) ==
    /\ wpc[c] = "open"
    /\ received < MaxTexts
    /\ received' = received + 1
    /\ LET response == "Echo: " \o data
           sent == Sent(response, c, received + 1)
           targets == send_message(active_connections, wuser[c])
       IN  IF \E d \in targets : wpc[d] # "open"
           THEN /\ dropped' = dropped \cup {sent}
                /\ \/ /\ wpc' = [wpc EXCEPT ![c] = "closed"]
                      /\ active_connections' = disconnect(active_connections, wuser[c])
                   \/ /\ wpc' = [wpc EXCEPT ![c] = "failed"]
                      /\ UNCHANGED active_connections
                /\ UNCHANGED outbox
           ELSE /\ outbox' = [d \in Channels |->
                                 IF d \in targets THEN Append(outbox[d], sent) ELSE outbox[d]]
                /\ dropped' = IF targets = {} THEN dropped \cup {sent} ELSE dropped
                /\ UNCHANGED <<active_connections, wpc>>
    /\ UNCHANGED <<wuser, latest>>
    /\ UNCHANGED <<sessions, now, lookup, log, slotVars, healthVars, f1Vars, responderVars>>

\* receive_text gets a binary frame: message["text"] raises KeyError, which
\* the handler does not catch; it ends without manager.disconnect.
receive_bytes(c) ==
    /\ wpc[c] = "open"
    /\ wpc' = [wpc EXCEPT ![c] = "failed"]
    /\ UNCHANGED <<active_connections, wuser, outbox, dropped, received, latest>>
    /\ UNCHANGED <<sessions, now, lookup, log, slotVars, healthVars, f1Vars, responderVars>>

\* receive_text raises WebSocketDisconnect: the handler calls
\* manager.disconnect with its user id and ends.
websocket_disconnect(c) ==
    /\ wpc[c] = "open"
    /\ wpc' = [wpc EXCEPT ![c] = "closed"]
    /\ active_connections' = disconnect(active_connections, wuser[c])
    /\ UNCHANGED <<wuser, outbox, dropped, received, latest>>
    /\ UNCHANGED <<sessions, now, lookup, log, slotVars, healthVars, f1Vars, responderVars>>

HubInit ==
    /\ active_connections = <<>>
    /\ wpc = [c \in Channels |-> "unused"]
    /\ wuser = [c \in Channels |-> None]
    /\ outbox = [c \in Channels |-> <<>>]
    /\ dropped = {}
    /\ received = 0
    /\ latest = <<>>

\* ---------------------------------------------------------------------------
\* GET /health
\* ---------------------------------------------------------------------------

\* The answer of a health request: n counts the health requests answered,
\* available is the field backend_client.available of the body, and before is
\* the value the previous answer held.
Health(n, available, before) == [n |-> n, available |-> available, before |-> before]

NoHealth == Health(0, None, None)

\* health_check answering from the value the previous health request or the
\* last chat request found, when there is one.
health_check_cached ==
    /\ health.n < MaxChecks
    /\ LET fresh == check_backend_availability(upstream)
           backend_status == IF health.n > 0 THEN health.available
                             ELSE IF avail[1] # "unknown" THEN avail[1] = "yes"
                             ELSE fresh
       IN health' = Health(health.n + 1, backend_status, health.available)
    /\ UNCHANGED <<upstream, upstream_post, hubVars, f1Vars, responderVars>>
    /\ UNCHANGED <<sessions, now, lookup, log, slotVars>>

\* health_check: backend_status = await check_backend_availability(), and the
\* body reports it. The GET meets the upstream as it is now.
health_check ==
    /\ health.n < MaxChecks
    /\ LET backend_status == check_backend_availability(upstream)
       IN health' = Health(health.n + 1, backend_status, health.available)
    /\ UNCHANGED <<upstream, upstream_post, hubVars, f1Vars, responderVars>>
    /\ UNCHANGED <<sessions, now, lookup, log, slotVars>>

\* The environment: the backend client starts, stops or breaks, so that its
\* GET /health ends in another way from now on.
upstream_changes ==
    /\ \E outcome \in ProbeOutcomes \ {upstream} : upstream' = outcome
    /\ UNCHANGED <<health, upstream_post, hubVars, f1Vars, responderVars>>
    /\ UNCHANGED <<sessions, now, lookup, log, slotVars>>

\* The environment: the POST /chat of the backend client ends in another way
\* from now on.
upstream_post_changes ==
    /\ \E outcome \in ForwardOutcomes \ {upstream_post} : upstream_post' = outcome
    /\ UNCHANGED <<health, upstream, hubVars, f1Vars, responderVars>>
    /\ UNCHANGED <<sessions, now, lookup, log, slotVars>>

HealthInit ==
    /\ upstream = [kind |-> "status", status |-> 200]
    /\ upstream_post = Outcome("status", 200, Payload("object", "upstream reply", "text", None))
    /\ health = NoHealth


\* ---------------------------------------------------------------------------
\* f1_backend: GET /api/f1/qualifying
\* ---------------------------------------------------------------------------

\* pd.unique(session.laps['Driver']): the drivers of a session, in the order
\* the laps name them.
DriverNames == <<"VER", "HAM", "LEC", "NOR", "SAI">>

\* What pick_drivers(drv).pick_fastest() gives for one driver: it raises, it
\* gives an empty lap, or a lap with a lap time.
LapTimes == {90, 91}

LapOutcome(kind, time) == [kind |-> kind, time |-> time]

LapOutcomes ==
    {LapOutcome("raises", 0), LapOutcome("empty", 0)} \cup
    {LapOutcome("lap", time) : time \in LapTimes}

\* The data of one request: whether session.load() succeeds, and the outcome
\* of pick_fastest for each of its drivers.
Quali(loaded, laps) == [loaded |-> loaded, laps |-> laps]

QualiInputs ==
    {Quali(FALSE, <<>>)} \cup
    UNION {{Quali(TRUE, laps) : laps \in [1..n -> LapOutcomes]} : n \in 0..MaxDrivers}

Lap(driver, time) == [Driver |-> driver, LapTime |-> time]

\* The loop over the drivers: the laps that are appended, in driver order.
RECURSIVE list_fastest_laps(_, _)
list_fastest_laps(laps, i) ==
    IF i > Len(laps) THEN <<>>
    ELSE IF laps[i].kind = "lap"
         THEN <<Lap(DriverNames[i], laps[i].time)>> \o list_fastest_laps(laps, i + 1)
         ELSE list_fastest_laps(laps, i + 1)

\* Laps(...).sort_values(by='LapTime'): the orders the sort can leave the laps
\* in; it does not say which of two equal lap times comes first.
SortedOrders(list) ==
    {order \in [1..Len(list) -> 1..Len(list)] :
        /\ \A i, j \in 1..Len(list) : i # j => order[i] # order[j]
        /\ \A i \in 1..(Len(list) - 1) :
              list[order[i]].LapTime <= list[order[i + 1]].LapTime}

\* An answer of the endpoint: a status with the detail of the HTTPException,
\* or 200 with the body.
F1Error(status, detail) == [status |-> status, detail |-> detail, results |-> <<>>]

F1Ok(results) == [status |-> 200, detail |-> "", results |-> results]

NoAnswer == [status |-> 0, detail |-> "", results |-> <<>>]

\* One row of results.
ResultRow(position, lap, pole) ==
    [position |-> position,
     driver |-> lap.Driver,
     lapTime |-> lap.LapTime,
     timeDelta |-> IF lap.LapTime - pole.LapTime > 0
                   THEN "+" \o ToString(lap.LapTime - pole.LapTime) \o "s"
                   ELSE "Pole"]

\* The body of the try block for the data q and the order the sort gives:
\* what it returns, or the exception it raises.
qualifying_try(q, order) ==
    IF ~q.loaded THEN F1Error(-1, "session.load() failed")
    ELSE LET list == list_fastest_laps(q.laps, 1)
         IN IF list = <<>>
            THEN F1Error(404, "No qualifying data found")
            ELSE LET fastest_laps == [i \in 1..Len(list) |-> list[order[i]]]
                     pole_lap == fastest_laps[1]
                 IN F1Ok([i \in 1..Len(list) |-> ResultRow(i, fastest_laps[i], pole_lap)])

\* str(e) of what the try block raised: an HTTPException prints as
\* "status: detail".
ExcStr(raised) ==
    IF raised.status > 0
    THEN ToString(raised.status) \o ": " \o raised.detail
    ELSE raised.detail

\* except Exception as e: every exception of the try block, the
\* HTTPException it raised itself included, becomes a 500.
qualifying_except(tried) ==
    IF tried.status = 200 THEN tried
    ELSE F1Error(500, "Error fetching qualifying data: " \o ExcStr(tried))

\* GET /api/f1/qualifying is answered.
get_qualifying_results ==
    /\ qualifying = NoAnswer
    /\ LET list == IF quali.loaded THEN list_fastest_laps(quali.laps, 1) ELSE <<>>
       IN \E order \in SortedOrders(list) :
            qualifying' = qualifying_except(qualifying_try(quali, order))
    /\ UNCHANGED <<quali, hubVars, healthVars, responderVars>>
    /\ UNCHANGED <<sessions, now, lookup, log, slotVars>>

\* The next request arrives, for an event with other data.
qualifying_request ==
    /\ qualifying # NoAnswer
    /\ quali' \in QualiInputs
    /\ qualifying' = NoAnswer
    /\ UNCHANGED <<hubVars, healthVars, responderVars>>
    /\ UNCHANGED <<sessions, now, lookup, log, slotVars>>

F1Init ==
    /\ quali = Quali(FALSE, <<>>)
    /\ qualifying = NoAnswer

\* SpecF1 starts with a request for any data.
F1InitAny ==
    /\ quali \in QualiInputs
    /\ qualifying = NoAnswer


\* ---------------------------------------------------------------------------
\* SpecResponder: generate_llm_response on its own
\* ---------------------------------------------------------------------------

\* The words messages are made of.
Words == {"F1", "Formula", "BET", "betting", "hello", "Hi", "this", "OK", "race"}

\* The messages: up to MaxWords words.
Utterances == UNION {[1..n -> Words] : n \in 1..MaxWords}

\* " ".join(words)
RECURSIVE Join(_)
Join(words) ==
    IF Len(words) = 1 THEN words[1]
    ELSE Join(SubSeq(words, 1, Len(words) - 1)) \o " " \o words[Len(words)]

\* The session contexts the responder is called with: a new session, and
\* one with an exchange in its history.
ResponderContexts ==
    {NewSession(0),
     [NewSession(0) EXCEPT !.messages =
        <<Entry(Message("Tell me about F1", "text", TRUE), 0),
          Entry(Message(F1Reply, "text", FALSE), 0)>>]}

Given(session_context, user_id) == [context |-> session_context, user_id |-> user_id]

NotGiven == Given(NewSession(0), None)

\* The responder is called with the message of the words, for some session
\* and some user.
respond ==
    /\ answered = None
    /\ \E session_context \in ResponderContexts : \E user_id \in HubUsers :
          /\ answered' = generate_llm_response(Join(utterance), session_context, user_id)
          /\ given' = Given(session_context, user_id)
    /\ UNCHANGED <<utterance, hubVars, healthVars, f1Vars>>
    /\ UNCHANGED <<sessions, now, lookup, log, slotVars>>

\* The next message.
next_utterance ==
    /\ answered # None
    /\ utterance' \in Utterances
    /\ answered' = None
    /\ given' = NotGiven
    /\ UNCHANGED <<hubVars, healthVars, f1Vars>>
    /\ UNCHANGED <<sessions, now, lookup, log, slotVars>>

ResponderInit ==
    /\ utterance = <<"OK">>
    /\ answered = None
    /\ given = NotGiven

\* SpecResponder starts with any message.
ResponderInitAny ==
    /\ utterance \in Utterances
    /\ answered = None
    /\ given = NotGiven


Init ==
    /\ ChatInit
    /\ HubInit
    /\ HealthInit
    /\ F1Init
    /\ ResponderInit

\* Spec: the service handles its HTTP requests one after the other, the chat
\* requests in slot 1.
Next ==
    \/ \E request \in Requests : Arrive(1, request)
    \/ ProbeDone(1)
    \/ ReadDone(1)
    \/ PostDone(1)
    \/ Release(1)
    \/ \E session_id \in SessionIds : pc[1] = "idle" /\ get_session_info(session_id)

Spec == Init /\ [][Next]_vars

\* SpecConc: up to NumSlots chat handlers in flight, their steps interleaved at
\* the awaits; the requests are text requests.
ConcRequests == {q \in Requests : q.type = "text" /\ ~q.audio.present}

NextConc ==
    \/ \E r \in Slots : \E request \in ConcRequests : Arrive(r, request)
    \/ \E r \in Slots : ProbeDone(r)
    \/ \E r \in Slots : PostDone(r)
    \/ \E r \in Slots : Release(r)

SpecConc == Init /\ [][NextConc]_vars

\* SpecStore: the session store alone, under any sequence of appends.
NextStore ==
    \E session_id \in SessionIds : \E message \in StoreMessages :
        StoreAppend(session_id, message)

SpecStore == Init /\ [][NextStore]_vars

\* SpecLive: a handler whose awaited calls all end, which is what the
\* timeouts of the two httpx clients and the event loop give.
LiveRequests == {request \in Requests : request.sessionId = "s1" /\ request.message = "ok"}

NextLive ==
    \/ \E request \in LiveRequests : Arrive(1, request)
    \/ ProbeDone(1)
    \/ ReadDone(1)
    \/ PostDone(1)
    \/ Release(1)

Awaited == WF_vars(ProbeDone(1)) /\ WF_vars(ReadDone(1)) /\ WF_vars(PostDone(1))

SpecLive == Init /\ [][NextLive]_vars /\ Awaited

\* SpecHealth: health requests between the steps of chat requests, with a
\* backend client that comes and goes; the probe of a chat request meets the
\* same backend client as the probe of a health request.
HealthRequests == {request \in ConcRequests : request.sessionId = "s1" /\ request.message = "ok"}

NextHealth ==
    \/ \E request \in HealthRequests : Arrive(1, request)
    \/ ProbeDone(1) /\ (avail'[1] = "yes") = check_backend_availability(upstream)
    \/ PostDone(1)
    \/ Release(1)
    \/ health_check
    \/ upstream_changes

SpecHealth == Init /\ [][NextHealth]_vars

\* SpecForward: chat requests whose proxied POST meets a backend client that
\* changes what its POST /chat ends with.
NextForward ==
    \/ \E request \in HealthRequests : Arrive(1, request)
    \/ ProbeDone(1)
    \/ PostDone(1) /\ result'[1] = proxy_to_backend_client(upstream_post)
    \/ Release(1)
    \/ upstream_post_changes

SpecForward == Init /\ [][NextForward]_vars

\* SpecFrame: chat requests for either session, health requests and the
\* handler of one websocket, their steps interleaved at the awaits.
FrameRequests == {request \in ConcRequests : request.message = "ok"}

NextFrame ==
    \/ \E request \in FrameRequests : Arrive(1, request)
    \/ ProbeDone(1)
    \/ PostDone(1)
    \/ Release(1)
    \/ health_check
    \/ \E user_id \in HubUsers : connect_begin(1, user_id)
    \/ connect_end(1)
    \/ \E data \in Texts : receive_text(1, data)
    \/ websocket_disconnect(1)
    \/ receive_bytes(1)

SpecFrame == Init /\ [][NextFrame]_vars

\* SpecPair: two chat handlers in flight at once on one session, text and
\* voice requests, their steps interleaved at the awaits, with every outcome
\* of the probe, of the read of the audio and of the POST.
PairSlots == {1, 2}

PairRequests ==
    {request \in Requests :
        /\ request.sessionId = "s1"
        /\ request.message = "ok"
        /\ request.type \in {"text", "voice"}
        /\ request.audio.present = (request.type = "voice")
        /\ request.audio.content_type \in {None, "audio/webm"}}

NextPair ==
    \/ \E r \in PairSlots : \E request \in PairRequests : Arrive(r, request)
    \/ \E r \in PairSlots : ProbeDone(r)
    \/ \E r \in PairSlots : ReadDone(r)
    \/ \E r \in PairSlots : PostDone(r)
    \/ \E r \in PairSlots : Release(r)

SpecPair == Init /\ [][NextPair]_vars

\* SpecHub: websockets connect, send texts and disconnect in any interleaving.
NextHub ==
    \/ \E c \in Channels : \E user_id \in HubUsers : connect_begin(c, user_id)
    \/ \E c \in Channels : connect_end(c)
    \/ \E c \in Channels : \E data \in Texts : receive_text(c, data)
    \/ \E c \in Channels : websocket_disconnect(c)
    \/ \E c \in Channels : receive_bytes(c)

SpecHub == Init /\ [][NextHub]_vars

\* SpecF1: qualifying requests for any session data.
InitF1 == ChatInit /\ HubInit /\ HealthInit /\ F1InitAny /\ ResponderInit

NextF1 ==
    \/ get_qualifying_results
    \/ qualifying_request

SpecF1 == InitF1 /\ [][NextF1]_vars

\* SpecResponder: the responder on any message.
InitResponder == ChatInit /\ HubInit /\ HealthInit /\ F1Init /\ ResponderInitAny

NextResponder ==
    \/ respond
    \/ next_utterance

SpecResponder == InitResponder /\ [][NextResponder]_vars

\* ------------------------------------------------------------------ claims

\* The handler of slot r answered.
Responded(r) == pc[r] = "done" /\ resp[r].status = 200
Rejected(r) == pc[r] = "done" /\ resp[r].status = 400
\* The request of slot r passed the validation.
Passed(r) == pc[r] \in {"probing", "reading", "posting"} \/ (pc[r] = "done" /\ ~Rejected(r))

\* One user entry, then one assistant entry.
IsPair(es) == Len(es) = 2 /\ es[1].is_user /\ ~es[2].is_user
UserEntries(es) == {i \in 1..Len(es) : es[i].is_user}

\* C1: every valid text request to POST /chat appends exactly two entries to
\* its session, a user entry and then an assistant entry, whether the
\* upstream or the fallback answered it.
C1_TextAppendsTwo ==
    \A r \in Slots :
        (pc[r] = "done" /\ req[r].type = "text") => IsPair(appended[r])

\* C2: every request that ends in Responded made exactly one append pair
\* (user, then assistant) on every path, and no user entry is recorded twice
\* for one request.
C2_OnePairPerResponse ==
    \A r \in Slots :
        Responded(r) =>
            /\ IsPair(appended[r])
            /\ Cardinality(UserEntries(appended[r])) <= 1

\* A voice request without an audio part, or a type that is neither text nor
\* voice.
BadKind(q) ==
    \/ q.type = "voice" /\ ~q.audio.present
    \/ q.type \notin {"text", "voice"}

\* C3: a voice request without audio payload, and a request whose type is
\* neither text nor voice, ends in Rejected with status 400 in the step it
\* arrives in, and that step leaves the session store as it was: no session is
\* created and no history changes; the request appends nothing afterwards.
C3_RejectKeepsStore ==
    /\ [][\A r \in Slots :
            (pc[r] = "idle" /\ pc'[r] # "idle" /\ BadKind(req'[r])) =>
                (pc'[r] = "done" /\ resp'[r].status = 400 /\ sessions' = sessions)]_vars
    /\ [](\A r \in Slots :
            (pc[r] # "idle" /\ BadKind(req[r])) =>
                (Rejected(r) /\ appended[r] = <<>>))

C3_Witness ==
    \E r \in Slots :
        /\ Rejected(r)
        /\ req[r].type = "voice" /\ ~req[r].audio.present
        /\ DOMAIN sessions # {}

\* The audio part is there and declares a media type that begins with audio/.
AudioTyped(a) ==
    a.present /\ a.content_type # None /\ StartsWith(a.content_type, "audio/")

\* C4: every voice request that passes the validation has an audio payload
\* whose declared media type begins with audio/ (so a voice request whose
\* media type is missing, empty or something else ends in Rejected).
C4_VoicePassedIsAudio ==
    \A r \in Slots :
        (Passed(r) /\ req[r].type = "voice") => AudioTyped(req[r].audio)

\* What the response generator gives for a request: the classifier's reply to
\* the message (to the transcription of a voice request), with the type of the
\* request and the audio reference of the synthesis.
GeneratorOutput(q) ==
    LET text == IF q.type = "voice" THEN transcribe_audio(q.audio) ELSE q.message
        reply == generate_llm_response(text, NewSession(0), q.userId)
    IN Payload("object", reply, q.type,
               IF q.type = "voice" THEN text_to_speech(reply) ELSE None)

\* C5: when the probe of a request returns false, the forward call is never
\* issued for it, the response generator is invoked, and the response is
\* exactly the generator's output.
C5_ProbeFalseGenerates ==
    \A r \in Slots :
        /\ (avail[r] = "no") => forwards[r] = 0
        /\ (pc[r] = "done" /\ avail[r] = "no") =>
              /\ gens[r] = 1
              /\ resp[r] = Response(200, GeneratorOutput(req[r]))

C5_Witness ==
    \E r \in Slots :
        pc[r] = "done" /\ avail[r] = "no" /\ req[r].type = "voice" /\ gens[r] = 1

\* C6: when the probe returns true and forward fails, with any failure kind,
\* the request still ends in Responded and its response is the one the
\* response generator gives for the same input when the probe returns false.
C6_ForwardFailureFallsBack ==
    \A r \in Slots :
        (pc[r] = "done" /\ avail[r] = "yes" /\ result[r].raised) =>
            /\ Responded(r)
            /\ resp[r] = placeholder(<<>>, req[r], 0).resp

C6_Witness ==
    \E r \in Slots :
        /\ pc[r] = "done" /\ avail[r] = "yes"
        /\ result[r].raised /\ result[r].status = 504
        /\ resp[r].status = 200

\* C7: when the probe returns true and forward succeeds (status 200), the
\* response is the upstream's payload unchanged and the response generator is
\* not used for the request.
C7_UpstreamVerbatim ==
    \A r \in Slots :
        (pc[r] = "done" /\ avail[r] = "yes" /\ ~result[r].raised) =>
            /\ resp[r] = Response(200, result[r].value)
            /\ gens[r] = 0

\* C8: no upstream failure reaches the caller of POST /chat as an error
\* status: a request whose probe or forward failed is answered with 200, and
\* the only error statuses are 400 and 500 (never 503 or 504).
C8_UpstreamFailureAbsorbed ==
    \A r \in Slots :
        pc[r] = "done" =>
            /\ resp[r].status \in {200, 400, 500}
            /\ (avail[r] = "no" \/ result[r].raised) => resp[r].status = 200

C8_Witness ==
    \E r \in Slots :
        /\ pc[r] = "done"
        /\ result[r].raised /\ result[r].status = 503
        /\ resp[r].status = 200

Min(a, b) == IF a <= b THEN a ELSE b

\* C9: after n appends to a session its history holds exactly the last
\* min(n, 10) appended messages, in the order of the appends.
C9_HistoryIsLastTen ==
    \A session_id \in DOMAIN sessions :
        LET h == sessions[session_id].messages
            n == Len(log[session_id])
        IN /\ Len(h) = Min(n, HistoryLimit)
           /\ \A i \in 1..Len(h) : h[i] = log[session_id][n - Len(h) + i]

C9_Witness ==
    \E session_id \in DOMAIN sessions :
        /\ Len(log[session_id]) = HistoryLimit + 1
        /\ Len(sessions[session_id].messages) = HistoryLimit

\* C10: GET /sessions/{id} for an identifier without a session answers 404
\* and leaves the session store unchanged: it never creates the session.
C10_LookupUnknown ==
    [][\A session_id \in SessionIds :
          (lookup'.id = session_id /\ lookup'.status # 0
             /\ session_id \notin DOMAIN sessions) =>
              (lookup'.status = 404 /\ sessions' = sessions)]_vars

C10_Witness ==
    lookup.status = 404 /\ DOMAIN sessions # {}

\* The entries of the history of session sid that the request of slot r
\* appended: the positions, in the history, of the entries made at its time.
Positions(sid, r) ==
    IF sid \notin DOMAIN sessions \/ appended[r] = <<>> THEN {}
    ELSE {i \in 1..Len(sessions[sid].messages) :
            sessions[sid].messages[i].timestamp = appended[r][1].timestamp}

\* Two handlers in flight at once have answered requests of one session.
BothAnswered(r1, r2) ==
    /\ r1 # r2
    /\ Responded(r1) /\ Responded(r2)
    /\ req[r1].sessionId = req[r2].sessionId

\* C11: when two chat requests of one session run concurrently and both have
\* completed, the history of the session holds both exchanges in full: the
\* two requests made 4 entries, a user and an assistant entry each, and all
\* of them are in the history.
C11_BothExchangesKept ==
    \A r1, r2 \in Slots :
        BothAnswered(r1, r2) =>
            /\ Len(appended[r1]) + Len(appended[r2]) = 4
            /\ IsPair(appended[r1]) /\ IsPair(appended[r2])
            /\ Cardinality(Positions(req[r1].sessionId, r1)) = 2
            /\ Cardinality(Positions(req[r1].sessionId, r2)) = 2

\* C12: the entries of two requests of one session are in the history in the
\* order in which the requests arrived.
C12_ArrivalOrder ==
    \A r1, r2 \in Slots :
        (BothAnswered(r1, r2) /\ ticket[r1] < ticket[r2]) =>
            \A i \in Positions(req[r1].sessionId, r1) :
                \A j \in Positions(req[r1].sessionId, r2) : i < j

\* The request of slot r is with the handler, which has not answered yet.
InFlight(r) == pc[r] \in {"probing", "reading", "posting"}

\* The longest the handler of slot r can have waited: each call it issued
\* ends within the timeout of its client.
Waited(r) == probes[r] * ProbeTimeout + forwards[r] * BACKEND_TIMEOUT

\* C13: every chat request reaches a terminal outcome, a response or an
\* error, and never hangs: it issues at most one probe and at most one
\* forward, so with calls that end within their timeouts it has waited at
\* most the probe timeout plus the forward timeout when it ends.
C13_Terminates ==
    /\ [](\A r \in Slots :
            /\ probes[r] <= 1
            /\ forwards[r] <= 1
            /\ Waited(r) <= ProbeTimeout + BACKEND_TIMEOUT)
    /\ \A r \in Slots : InFlight(r) ~> (pc[r] = "done")

C13_Witness ==
    \E r \in Slots :
        /\ pc[r] = "done"
        /\ probes[r] = 1 /\ forwards[r] = 1
        /\ result[r].raised /\ result[r].status = 504
        /\ Waited(r) = ProbeTimeout + BACKEND_TIMEOUT

\* C14: every GET /health issues its own probe and reports in available what
\* that probe finds in the backend client as it is at that moment, never a
\* value an earlier health request or a chat request found; when the backend
\* client changed between two health requests the second reports the new
\* value.
C14_HealthFresh ==
    [][health'.n = health.n + 1 =>
          health'.available = (upstream.kind = "status" /\ upstream.status = 200)]_vars

C14_Witness ==
    /\ health.n >= 2
    /\ health.available = FALSE
    /\ health.before = TRUE
    /\ avail[1] = "yes"

\* The words that hold a trigger of each class, in some case: F1 and formula
\* for motorsport, bet and betting for betting, hello and hi for greeting
\* ("this" holds "hi").
MotorsportWords == {"F1", "Formula"}
BettingWords == {"BET", "betting"}
GreetingWords == {"hello", "Hi", "this"}

HasWord(words, class) == \E i \in 1..Len(words) : words[i] \in class

\* The reply the priority order motorsport, betting, greeting, echo gives.
ReplyByPriority(words) ==
    IF HasWord(words, MotorsportWords) THEN F1Reply
    ELSE IF HasWord(words, BettingWords) THEN BetReply
    ELSE IF HasWord(words, GreetingWords) THEN HelloReply
    ELSE EchoReply(Join(words))

\* C15: the responder replies by the first matching trigger in the order
\* motorsport, betting, greeting, echo, matching substrings whatever their
\* case: a message with triggers of several classes gets the reply of the
\* highest class, "hello" gets the greeting and not the echo, and the echo is
\* given only when no trigger matches.
C15_PriorityOrder ==
    answered # None =>
        /\ answered = ReplyByPriority(utterance)
        /\ utterance = <<"hello">> =>
              (answered = HelloReply /\ answered # EchoReply("hello"))
        /\ answered = EchoReply(Join(utterance)) =>
              ~HasWord(utterance, MotorsportWords \cup BettingWords \cup GreetingWords)

C15_Witness ==
    /\ answered = F1Reply
    /\ HasWord(utterance, MotorsportWords)
    /\ HasWord(utterance, BettingWords)

\* The placeholder answered the request of slot r.
FellBack(r) == Responded(r) /\ gens[r] = 1

\* C16: when the upstream is not available a text request that mentions F1
\* gets the motorsport reply with type "text" and a null audioUrl; every
\* fallback response has the type of its request and a null audioUrl.
C16_FallbackShape ==
    \A r \in Slots :
        FellBack(r) =>
            /\ resp[r].body.type = req[r].type
            /\ resp[r].body.audioUrl = None
            /\ (req[r].type = "text" /\ req[r].message = "Tell me about F1") =>
                  (resp[r].body.message = F1Reply /\ resp[r].body.type = "text")

C16_Witness ==
    \E r \in Slots :
        /\ FellBack(r)
        /\ avail[r] = "no"
        /\ req[r].type = "text"
        /\ req[r].message = "Tell me about F1"
        /\ resp[r].body.message = F1Reply

\* manager.connect of websocket c completes in this step.
Connects(c) == wpc[c] = "accepting" /\ wpc'[c] = "open"

\* C17: the registry maps each identity to at most one handle, a websocket
\* of that identity; when connect(identity) completes the handle of the
\* identity is the websocket that connected, whatever handle the identity
\* had, and connect leaves every other websocket as it was: it does not
\* close the one it supersedes.
C17_ConnectSupersedes ==
    /\ [](\A u \in DOMAIN active_connections :
            /\ active_connections[u] \in Channels
            /\ wuser[active_connections[u]] = u)
    /\ [][\A c \in Channels :
            Connects(c) =>
                /\ wuser[c] \in DOMAIN active_connections'
                /\ active_connections'[wuser[c]] = c
                /\ \A d \in Channels \ {c} :
                      wpc'[d] = wpc[d] /\ outbox'[d] = outbox[d]]_vars

C17_Witness ==
    \E c, d \in Channels :
        /\ c < d
        /\ wuser[c] = wuser[d]
        /\ wpc[c] = "open" /\ wpc[d] = "open"
        /\ wuser[d] \in DOMAIN active_connections
        /\ active_connections[wuser[d]] = d

\* The texts sent on some websocket.
Delivered == UNION {{outbox[c][i] : i \in 1..Len(outbox[c])} : c \in Channels}

\* C18: send(identity, text) for an identity without a registered handle is a
\* silent no-op: the handler goes on (no error), the registry and every
\* websocket stay as they were, and the text is never sent later, not even
\* after a later connect of that identity.
C18_SendWithoutHandle ==
    /\ [][\A c \in Channels : \A data \in Texts :
            (receive_text(c, data) /\ wuser[c] \notin DOMAIN active_connections) =>
                /\ active_connections' = active_connections
                /\ outbox' = outbox
                /\ wpc' = wpc /\ wpc'[c] = "open"]_vars
    /\ [](dropped \cap Delivered = {})

C18_Witness ==
    \E sent \in dropped :
        /\ wuser[sent.from] \in DOMAIN active_connections
        /\ sent \notin Delivered

\* C19: every text received on a websocket is echoed to the websocket that
\* sent it and to no other, in every interleaving of connects, disconnects
\* and texts, also when a second websocket has connected with the same
\* identity: every echo on the wire is on the websocket its text came from,
\* and no echo was left unsent.
C19_EchoToSender ==
    /\ \A c \in Channels : \A i \in 1..Len(outbox[c]) : outbox[c][i].from = c
    /\ dropped = {}

\* The session of the request loaded and gave no fastest lap for any driver.
NoFastestLap == quali.loaded /\ list_fastest_laps(quali.laps, 1) = <<>>

\* C20: when the qualifying session yields no fastest lap for any driver,
\* GET /api/f1/qualifying answers 404 (no qualifying data found), not 500.
C20_NoDataIs404 ==
    (qualifying # NoAnswer /\ NoFastestLap) => qualifying.status = 404

\* The backend client answers its GET /health with status 200.
Answers200(outcome) == outcome.kind = "status" /\ outcome.status = 200

\* The probe of the chat request of slot 1 ends in this step.
ChatProbeEnds == pc[1] = "probing" /\ pc'[1] # "probing"

\* C21: the probe never raises to its caller: for every outcome of its GET
\* (status 200, another status, a timeout, a connection error, another
\* fault) it returns a boolean, true only for status 200. The health handler
\* gets a boolean to report, and the chat handler goes on with the proxied
\* call or with the placeholder, never with an error of the probe.
C21_ProbeNeverRaises ==
    [][/\ health'.n = health.n + 1 =>
            /\ health'.available \in BOOLEAN
            /\ health'.available <=> Answers200(upstream)
       /\ ChatProbeEnds =>
            /\ avail'[1] \in {"yes", "no"}
            /\ avail'[1] = "yes" <=> Answers200(upstream)
            /\ avail'[1] = "yes" => pc'[1] = "posting"
            /\ avail'[1] = "no" => (pc'[1] = "done" /\ resp'[1].status = 200)]_vars

C21_Witness ==
    /\ health.n >= 1
    /\ health.available = FALSE
    /\ upstream.kind = "status" /\ upstream.status = 204
    /\ avail[1] = "no" /\ pc[1] = "done"

\* The proxied POST of the chat request of slot 1 ends in this step.
ForwardEnds == pc[1] = "posting" /\ pc'[1] = "done"

\* C22: forward reports each failure with its own kind: a timeout as Timeout
\* (504), a connection failure as Unreachable (503), and a non-success
\* status of the upstream as UpstreamError with that status: the failure for
\* a non-success status keeps the status code of the upstream.
C22_FailureKinds ==
    [][ForwardEnds =>
          /\ upstream_post.kind = "timeout" =>
                (result'[1].raised /\ result'[1].status = 504)
          /\ upstream_post.kind = "connect" =>
                (result'[1].raised /\ result'[1].status = 503)
          /\ (upstream_post.kind = "status" /\ upstream_post.status # 200) =>
                (result'[1].raised /\ result'[1].status = upstream_post.status)]_vars

\* C23: a request that ends in Rejected causes no network activity: neither
\* the probe nor the forward call is issued for it, since validation ends
\* before the probe starts.
C23_RejectedNoNetwork ==
    \A r \in Slots :
        Rejected(r) => (probes[r] = 0 /\ forwards[r] = 0 /\ avail[r] = "unknown")

C23_Witness ==
    \E r \in Slots :
        /\ Rejected(r)
        /\ req[r].type = "voice" /\ req[r].audio.present
        /\ probes[r] = 0

\* What produces the response of a request: the proxied call returning the
\* payload of the upstream, or the generator.
Produced == {"forward_returned", "generate"}

\* C24: each request passes Validating, ProbingUpstream, Proxying or
\* Generating, Recording, Responding in this order: the handler appends no
\* entry to the session history before the response of the request has been
\* produced, by forward or by the generator, on the proxied path and on the
\* fallback path.
C24_RecordAfterResponse ==
    \A r \in Slots :
        \A i \in 1..Len(trace[r]) :
            trace[r][i] = "append" =>
                \E j \in 1..(i - 1) : trace[r][j] \in Produced

\* The history new is the history old after some appends (each append keeps
\* the last HistoryLimit entries).
IsAppended(old, new) ==
    \E k \in 1..Len(new) :
        new = LastN(old \o SubSeq(new, Len(new) - k + 1, Len(new)), HistoryLimit)

\* The handler of slot 1 ends in this step with an answer to a request that
\* passed the validation and that names session sid.
ValidChatEnds(sid) ==
    /\ pc[1] \in {"probing", "reading", "posting"}
    /\ pc'[1] = "done"
    /\ req[1].sessionId = sid

\* C25: a session is created only on the write path of a valid chat request
\* and is never deleted: a session that exists exists in every later state
\* with the same created-at, and its history changes only by appends, each
\* of which sets last-activity.
C25_SessionLifecycle ==
    [][/\ \A sid \in DOMAIN sessions :
            /\ sid \in DOMAIN sessions'
            /\ sessions'[sid].created_at = sessions[sid].created_at
            /\ \/ sessions'[sid] = sessions[sid]
               \/ /\ IsAppended(sessions[sid].messages, sessions'[sid].messages)
                  /\ sessions'[sid].last_activity = now
                  /\ ValidChatEnds(sid)
       /\ \A sid \in DOMAIN sessions' \ DOMAIN sessions :
            /\ ValidChatEnds(sid)
            /\ sessions'[sid].created_at = now
            /\ IsAppended(<<>>, sessions'[sid].messages)]_vars

C25_Witness ==
    \E sid \in DOMAIN sessions :
        /\ Len(sessions[sid].messages) >= 4
        /\ sessions[sid].created_at < sessions[sid].last_activity
        /\ lookup.status = 200

\* C26: in every ChatResponse of POST /chat, on the proxied path and on the
\* fallback path, an audio reference that is not null occurs only when the
\* kind of the response is voice.
C26_AudioOnlyForVoice ==
    \A r \in Slots :
        Responded(r) =>
            (resp[r].body.audioUrl \notin {None, Absent} => resp[r].body.type = "voice")

\* C27: the responder is deterministic in the message alone: the reply it
\* gave for a message, called with one session history and user id, is the
\* reply it gives for the same message with every other history and user id.
C27_ReplyByMessageAlone ==
    answered # None =>
        \A session_context \in ResponderContexts : \A user_id \in HubUsers :
            generate_llm_response(Join(utterance), session_context, user_id) = answered

C27_Witness ==
    /\ answered = BetReply
    /\ given.context.messages # <<>>
    /\ given.user_id = "u2"

\* Websocket c is live and no websocket of its identity connected after it.
MostRecent(c) ==
    /\ wpc[c] = "open"
    /\ wuser[c] \in DOMAIN latest
    /\ latest[wuser[c]] = c

\* C28: while a websocket is live and is the most recent connect of its
\* identity the registry maps the identity to it: the disconnect of an older,
\* superseded websocket of the identity does not remove its entry, so its
\* texts are still echoed.
C28_NewerStaysRegistered ==
    \A c \in Channels :
        MostRecent(c) =>
            /\ wuser[c] \in DOMAIN active_connections
            /\ active_connections[wuser[c]] = c

\* C29: the registry never leaks: every registered handle is a websocket
\* whose handler is still running.
C29_NoLeak ==
    \A u \in DOMAIN active_connections : wpc[active_connections[u]] = "open"

\* The session a step of slot r works for: the one its request names.
NamedSession(r) ==
    IF pc[r] = "idle" THEN req'[r].sessionId ELSE req[r].sessionId

\* Session sid is the same before and after the step: stored or not, and with
\* the same history, created_at and last_activity.
SessionKept(sid) ==
    /\ (sid \in DOMAIN sessions') = (sid \in DOMAIN sessions)
    /\ sid \in DOMAIN sessions => sessions'[sid] = sessions[sid]

\* C30: a step of a chat request leaves every session but the one named by
\* its sessionId as it was (history, created_at, last_activity, and whether it
\* is stored at all) and leaves the connection registry as it was; a step of
\* GET /health or of a websocket handler leaves the whole session store as it
\* was.
C30_FrameEffect ==
    [][/\ \A r \in Slots :
             pc'[r] # pc[r] =>
                 /\ \A sid \in SessionIds \ {NamedSession(r)} : SessionKept(sid)
                 /\ active_connections' = active_connections
       /\ (health' # health \/ hubVars' # hubVars) => sessions' = sessions]_vars

\* A chat request for s2 has been answered and has written its entries while
\* s1 holds a history, a websocket is registered and a health request has been
\* answered.
C30_Witness ==
    /\ pc[1] = "done"
    /\ req[1].sessionId = "s2"
    /\ appended[1] # <<>>
    /\ "s1" \in DOMAIN sessions
    /\ sessions["s1"].messages # <<>>
    /\ active_connections # <<>>
    /\ health.n > 0

\* Entries d and e of a history were recorded by the same request: a handler
\* stamps the entries it records with the time of the step that records them,
\* and the time moves on with every request answered.
SameRequest(d, e) == d.timestamp = e.timestamp

C32_UserEntryIsInbound ==
    \A r \in Slots :
        Responded(r) =>
            \A i \in UserEntries(appended[r]) :
                /\ appended[r][i].content = req[r].message
                /\ appended[r][i].type = req[r].type

====
